---- MODULE Spec2Model ----
(***************************************************************************)
(* A model of the working-hands shift finder: the GeolocationService       *)
(* (permission check, permission request, one-shot device position,        *)
(* getLocationWithRetry with exponential backoff), the ShiftListScreen      *)
(* loadShifts callback, the fetchShifts thunk and the shifts slice, the     *)
(* useGeolocation hook with LocationPermissionScreen and AppContent.        *)
(*                                                                          *)
(* JavaScript values are modelled as follows:                               *)
(*   - undefined / null strings are the string Undefined;                   *)
(*   - an optional object is a sequence of length 0 (absent) or 1;          *)
(*   - an error message or a rejection payload is a sequence of text        *)
(*     tokens (template strings concatenate tokens); the slice's            *)
(*     error = null is the empty sequence NoError;                          *)
(*   - String.prototype.includes over a message is Includes, computed      *)
(*     from the table TokenHas of the tokens the program can produce.       *)
(***************************************************************************)
EXTENDS Integers, Sequences, FiniteSets, TLC

VARIABLES
    shifts,     \* state.shifts of the redux store: data, loading, error, selectedShift
    reqs,       \* the fetchShifts thunk instances, by order of dispatch
    nReq,       \* how many fetchShifts have been dispatched
    calls,      \* the location acquisitions (and the loadShifts that await them)
    osPerm,     \* what the OS answers to check(LOCATION_PERMISSION)
    mounted,    \* ShiftListScreen has run its mount effect
    geo,        \* the state of useGeolocation: coordinates, loading, error, permissionStatus
    tasks,      \* the async functions of useGeolocation / LocationPermissionScreen that await
    screen,     \* LocationPermissionScreen: mounted, isRequesting, the deps its effect last saw
    app,        \* AppContent: hasLocationPermission, userCoordinates
    measure,    \* a calculateDistance measurement: the two points and the results returned
    lastEvent   \* history: the last handler that ran and what it produced

hookVars == <<geo, tasks, screen, app>>

listVars == <<shifts, reqs, nReq, calls, mounted>>

vars == <<shifts, reqs, nReq, calls, osPerm, mounted, geo, tasks, screen, app, measure, lastEvent>>

----------------------------------------------------------------------------
(* Bounds of the model. *)

\* loadShifts invocations (one mount, the rest pull-to-refresh); each dispatches
\* at most one fetchShifts, so this also bounds the thunk instances.
MaxCalls == 2

\* largest maxRetries argument tried for a direct getLocationWithRetry call
MaxRetries == 4

\* longest response batch
MaxBatch == 2

\* async functions started on LocationPermissionScreen: the mount's
\* checkPermission, then getCurrentLocation / handleRequestPermission
MaxTasks == 3

Calls == 1..MaxCalls
Requests == 1..MaxCalls
Tasks == 1..MaxTasks

----------------------------------------------------------------------------
(* Values. *)

Undefined == "undefined"

Truthy(s) == s \notin {Undefined, ""}

NoError == <<>>

NoCoordinates == <<>>

Coordinates == {[latitude |-> 55, longitude |-> 37], [latitude |-> 0, longitude |-> 0]}

PermissionResults == {"granted", "denied", "blocked", "unavailable"}

\* react-native-permissions request(): a granted, blocked or unavailable
\* permission is reported as it is; a denied (requestable) one prompts the user,
\* who grants it, dismisses the prompt, or refuses for good.
RequestResults(p) ==
    IF p = "denied" THEN {"granted", "denied", "blocked"} ELSE {p}

\* check() or request() rejects instead of resolving with a result
Threw == "threw"

\* what await check(LOCATION_PERMISSION) may produce
CheckResults(p) == {p, Threw}

\* error.code values of @react-native-community/geolocation, and one outside 1..5
ErrorCodes == 1..6

\* GEOLOCATION_OPTIONS.maximumAge, in ms
MaximumAge == 10000

\* The last position the OS holds when getCurrentPosition is called: none, or
\* one of some age in ms. A fix no older than maximumAge is returned from the
\* cache, without a new query of the device.
NoFix == <<>>
FixAges == {NoFix, <<5000>>, <<20000>>}
PositionSource(fix, maximumAge) ==
    IF fix # NoFix /\ fix[1] <= maximumAge THEN "cached" ELSE "fresh"

RECURSIVE Pow(_, _)
Pow(b, e) == IF e = 0 THEN 1 ELSE b * Pow(b, e - 1)

----------------------------------------------------------------------------
(* GeolocationService.calculateDistance, in fixed-point arithmetic.  A number *)
(* x of the code is the integer x * Scale, and every product and quotient is  *)
(* rounded to that resolution as a double operation is rounded to its 53 bits.*)

Scale == 10000

RDiv(n, d) == IF n >= 0 THEN (n + d \div 2) \div d ELSE -((-n + d \div 2) \div d)

Mul(x, y) == RDiv(x * y, Scale)

Div(x, y) == RDiv(x * Scale, y)

PI == RDiv(355 * Scale, 113)

\* the alternating series term - term * x2 / (k (k + 1)) + ... of n terms
RECURSIVE Series(_, _, _, _)
Series(term, x2, k, n) ==
    IF n = 0 \/ term = 0 THEN 0
    ELSE term - Series(RDiv(Mul(term, x2), k * (k + 1)), x2, k + 2, n - 1)

RECURSIVE Sin(_)
Sin(x) ==
    IF x < 0 THEN -Sin(-x)
    ELSE IF x > PI \div 2 THEN Sin(PI - x)
    ELSE Series(x, Mul(x, x), 2, 7)

RECURSIVE Cos(_)
Cos(x) ==
    IF x < 0 THEN Cos(-x)
    ELSE IF x > PI \div 2 THEN -Cos(PI - x)
    ELSE Series(Scale, Mul(x, x), 1, 7)

RECURSIVE Root(_, _, _)
Root(n, lo, hi) ==
    IF lo = hi THEN lo
    ELSE LET mid == (lo + hi + 1) \div 2
         IN  IF mid * mid <= n THEN Root(n, mid, hi) ELSE Root(n, lo, mid - 1)

\* Math.sqrt of a number in 0..2
Sqrt(x) == Root(x * Scale, 0, 2 * Scale)

RECURSIVE HalveAngle(_, _)
HalveAngle(t, n) ==
    IF n = 0 THEN t ELSE HalveAngle(Div(t, Scale + Sqrt(Scale + Mul(t, t))), n - 1)

RECURSIVE OddSeries(_, _, _, _)
OddSeries(term, x2, k, n) ==
    IF n = 0 \/ term = 0 THEN 0
    ELSE RDiv(term, k) - OddSeries(Mul(term, x2), x2, k + 2, n - 1)

\* Math.atan of a number in 0..1
Atan(t) == LET h == HalveAngle(t, 2) IN 4 * OddSeries(h, Mul(h, h), 1, 4)

\* Math.atan2(y, x) of two non-negative numbers
Atan2(y, x) ==
    IF x = 0 /\ y = 0 THEN 0
    ELSE IF x >= y THEN Atan(Div(y, x))
    ELSE PI \div 2 - Atan(Div(x, y))

NaN == "NaN"

R == 6371

\* Math.PI / 180 is kept to three more digits than Scale, as the double keeps
\* the significant digits of a small number
toRad(degrees) == RDiv(degrees * RDiv(PI * 1000, 180), 1000)

isValidCoordinates(coords) ==
    /\ coords.latitude >= -90 /\ coords.latitude <= 90
    /\ coords.longitude >= -180 /\ coords.longitude <= 180

DistanceResult(distance, unit, formatted) ==
    [distance |-> distance, unit |-> unit, formatted |-> formatted]

\* distance < 1
belowKilometreExclusive(distance) == distance > 0 /\ distance < Scale

belowKilometre(distance) == distance < Scale

\* `${Math.round(distance * 1000)} m`
formatMetres(distance) == ToString(RDiv(distance * 1000, Scale)) \o " m"

\* `${distance.toFixed(1)} km`
formatKilometres(distance) ==
    LET tenths == RDiv(distance * 10, Scale)
    IN  ToString(tenths \div 10) \o "." \o ToString(tenths % 10) \o " km"

calculateDistance(coords1, coords2) ==
    LET dLat == toRad(coords2.latitude - coords1.latitude)
        dLon == toRad(coords2.longitude - coords1.longitude)
        lat1 == toRad(coords1.latitude)
        lat2 == toRad(coords2.latitude)
        a == Mul(Sin(RDiv(dLat, 2)), Sin(RDiv(dLat, 2)))
             + Mul(Mul(Mul(Sin(RDiv(dLon, 2)), Sin(RDiv(dLon, 2))), Cos(lat1)), Cos(lat2))
    IN  IF a < 0 \/ a > Scale
        THEN DistanceResult(NaN, "km", "NaN km")
        ELSE LET c == 2 * Atan2(Sqrt(a), Sqrt(Scale - a))
                 distance == R * c
             IN  IF belowKilometre(distance)
                 THEN DistanceResult(distance * 1000, "m", formatMetres(distance))
                 ELSE DistanceResult(distance, "km", formatKilometres(distance))

(* The points measured: a grid of valid coordinates, in whole degrees. *)

LatStep == 20
MaxLat == 4
LonStep == 50
MaxLon == 3

GridCoordinates ==
    {coords \in [latitude : {i * LatStep : i \in -MaxLat..MaxLat},
                 longitude : {j * LonStep : j \in -MaxLon..MaxLon}] :
        isValidCoordinates(coords)}

NoDistance == <<>>

NoMeasure == [coords1 |-> NoCoordinates, coords2 |-> NoCoordinates,
              forward |-> NoDistance, backward |-> NoDistance]

----------------------------------------------------------------------------
(* GeolocationService (src/src/utils/geolocationService.ts). *)

LocationResult(success, coordinates, error) ==
    [success |-> success, coordinates |-> coordinates, error |-> error]

NoResult == LocationResult(FALSE, NoCoordinates, Undefined)

\* the switch of the getCurrentPosition error callback
errorMessageNoDefault(code) ==
    CASE code = 1 -> "Location permission denied"
      [] code = 2 -> "Location unavailable"
      [] code = 3 -> "Location request timed out"
      [] code = 4 -> "Google Play services not available"
      [] code = 5 -> "Location settings not satisfied"
      [] OTHER -> Undefined
errorMessage(code) ==
    CASE code = 1 -> "Location permission denied"
      [] code = 2 -> "Location unavailable"
      [] code = 3 -> "Location request timed out"
      [] code = 4 -> "Google Play services not available"
      [] code = 5 -> "Location settings not satisfied"
      [] OTHER -> "Failed to get location"

\* hasLocationPermission: result === RESULTS.GRANTED, false when check rejects
hasLocationPermission(result) == result = "granted"

\* requestLocationPermission: result === RESULTS.GRANTED, false when request rejects
requestLocationPermissionAlways(result) == TRUE
requestLocationPermission(result) == result = "granted"

\* what getCurrentLocation resolves with when the request was not granted; the
\* boolean of requestLocationPermission has lost the result
requestFailure(result) == LocationResult(FALSE, NoCoordinates, "Location permission denied")

\* setTimeout(..., Math.pow(2, i) * 1000)
BackoffDelayBug(i) == Pow(i, 2) * 1000
BackoffDelay(i) == Pow(2, i) * 1000

\* if (i < maxRetries - 1) before the backoff timer
BackoffGuardAlways(i, maxRetries) == TRUE
BackoffGuard(i, maxRetries) == i < maxRetries - 1

\* the guard of the for loop of getLocationWithRetry
LoopGuardBug(i, maxRetries) == i <= maxRetries
LoopGuard(i, maxRetries) == i < maxRetries

IdleCall ==
    [pc |-> "idle", caller |-> "none", fn |-> "none", maxRetries |-> 0, i |-> 0,
     lastError |-> Undefined, delays |-> <<>>, attempts |-> 0,
     permRequests |-> 0, blockedRequests |-> 0, result |-> NoResult]

\* The head of the for loop: either the next getCurrentLocation() starts (its
\* first await is the permission check) or the loop is over and the function
\* returns {success: false, error: lastError || '...'}.
LoopHead(c) ==
    IF LoopGuard(c.i, c.maxRetries)
    THEN [c EXCEPT !.pc = "check", !.attempts = @ + 1]
    ELSE [c EXCEPT !.pc = "returned",
                   !.result = LocationResult(FALSE, NoCoordinates,
                       IF Truthy(c.lastError) THEN c.lastError
                       ELSE "Failed to get location after multiple attempts")]

\* getLocationWithRetry(maxRetries) is called
getLocationWithRetry(caller, maxRetries) ==
    LoopHead([IdleCall EXCEPT !.caller = caller, !.fn = "getLocationWithRetry",
                              !.maxRetries = maxRetries])

\* getCurrentLocation() is called on its own
getCurrentLocation(caller) ==
    [IdleCall EXCEPT !.caller = caller, !.fn = "getCurrentLocation",
                     !.pc = "check", !.attempts = 1]

\* getCurrentLocation() resolves with result r. Called on its own, that is the
\* outcome; inside getLocationWithRetry the loop body goes on: a success is
\* returned, a failure is remembered and followed by the backoff timer, except
\* after the last iteration.
Resolve(c, r) ==
    IF c.fn = "getCurrentLocation" THEN [c EXCEPT !.pc = "returned", !.result = r]
    ELSE IF r.success THEN [c EXCEPT !.pc = "returned", !.result = r]
    ELSE IF BackoffGuard(c.i, c.maxRetries)
         THEN [c EXCEPT !.lastError = r.error, !.pc = "backoff",
                        !.delays = Append(@, BackoffDelay(c.i))]
         ELSE LoopHead([c EXCEPT !.lastError = r.error, !.i = @ + 1])

Event(type, id, detail) == [type |-> type, id |-> id, detail |-> detail]

\* await this.hasLocationPermission(): granted goes on to
\* Geolocation.getCurrentPosition, anything else to the permission request.
PermissionCheck(k) ==
    /\ calls[k].pc = "check"
    /\ \E res \in CheckResults(osPerm) :
        /\ calls' = [calls EXCEPT ![k] =
               [@ EXCEPT !.pc = IF hasLocationPermission(res) THEN "device" ELSE "request"]]
        /\ lastEvent' = Event("check", k, res)
    /\ UNCHANGED <<shifts, reqs, nReq, osPerm, mounted, hookVars, measure>>

\* await this.requestLocationPermission(): not granted resolves
\* {success: false, error: 'Location permission denied'}.
PermissionRequest(k) ==
    /\ calls[k].pc = "request"
    /\ \E res \in RequestResults(osPerm) \cup {Threw} :
        /\ osPerm' = IF res = Threw THEN osPerm ELSE res
        /\ LET c == [calls[k] EXCEPT !.permRequests = @ + 1,
                                      !.blockedRequests = IF res = "blocked" THEN @ + 1 ELSE @]
           IN calls' = [calls EXCEPT ![k] =
                  IF requestLocationPermission(res) THEN [c EXCEPT !.pc = "device"]
                  ELSE Resolve(c, requestFailure(res))]
        /\ lastEvent' = Event("request", k, res)
    /\ UNCHANGED <<shifts, reqs, nReq, mounted, hookVars, measure>>

\* the success callback of Geolocation.getCurrentPosition
PositionSuccess(k) ==
    /\ calls[k].pc = "device"
    /\ \E pos \in Coordinates :
        calls' = [calls EXCEPT ![k] = Resolve(@, LocationResult(TRUE, <<pos>>, Undefined))]
    /\ \E fix \in FixAges : lastEvent' = Event("position", k, PositionSource(fix, MaximumAge))
    /\ UNCHANGED <<shifts, reqs, nReq, osPerm, mounted, hookVars, measure>>

\* the error callback of Geolocation.getCurrentPosition
PositionError(k) ==
    /\ calls[k].pc = "device"
    /\ \E code \in ErrorCodes :
        /\ calls' = [calls EXCEPT ![k] =
               Resolve(@, LocationResult(FALSE, NoCoordinates, errorMessage(code)))]
        /\ lastEvent' = Event("positionError", k, errorMessage(code))
    /\ UNCHANGED <<shifts, reqs, nReq, osPerm, mounted, hookVars, measure>>

\* the backoff timer fires: i++ and the loop head
BackoffElapsed(k) ==
    /\ calls[k].pc = "backoff"
    /\ calls' = [calls EXCEPT ![k] = LoopHead([@ EXCEPT !.i = @ + 1])]
    /\ lastEvent' = Event("backoff", k, Undefined)
    /\ UNCHANGED <<shifts, reqs, nReq, osPerm, mounted, hookVars, measure>>

\* the user changes the permission in the system settings
SettingsChange ==
    /\ \E p \in PermissionResults \ {osPerm} : osPerm' = p
    /\ lastEvent' = Event("settings", 0, Undefined)
    /\ UNCHANGED <<shifts, reqs, nReq, calls, mounted, hookVars, measure>>

----------------------------------------------------------------------------
(* The shifts slice (src/src/store/store.ts, shiftsSlice). *)

initialState ==
    [data |-> <<>>, loading |-> FALSE, error |-> NoError, selectedShift |-> <<>>]

\* reducers.setSelectedShift; payload is <<shift>> or <<>> for null
setSelectedShift(state, payload) == [state EXCEPT !.selectedShift = payload]

\* reducers.clearError
clearError(state) == [state EXCEPT !.error = NoError]

\* reducers.clearShifts
clearShiftsAll(state) == initialState
clearShifts(state) ==
    [state EXCEPT !.data = <<>>, !.selectedShift = <<>>, !.error = NoError]

\* extraReducers: fetchShifts.pending
pendingKeepsError(state) == [state EXCEPT !.loading = TRUE]
pending(state) == [state EXCEPT !.loading = TRUE, !.error = NoError]

\* extraReducers: fetchShifts.fulfilled
fulfilled(state, payload) ==
    [state EXCEPT !.loading = FALSE, !.data = payload, !.error = NoError]

\* a payload that is falsy for (action.payload as string) || '...'
Falsy(payload) == \A n \in 1..Len(payload) : payload[n] = ""

\* extraReducers: fetchShifts.rejected
rejectedKeepsData(state, payload) ==
    [state EXCEPT !.loading = FALSE,
                  !.error = IF Falsy(payload) THEN <<"Failed to fetch shifts">> ELSE payload]
rejected(state, payload) ==
    [state EXCEPT !.loading = FALSE,
                  !.error = IF Falsy(payload) THEN <<"Failed to fetch shifts">> ELSE payload,
                  !.data = <<>>]

----------------------------------------------------------------------------
(* The fetchShifts thunk (src/src/store/store.ts, lines 30-89). *)

Statuses == {200, 404, 500}

\* response.ok
ok(status) == status >= 200 /\ status <= 299

\* the status code as it prints in a template string
StatusStr(status) ==
    CASE status = 200 -> "200"
      [] status = 404 -> "404"
      [] status = 500 -> "500"

\* response.statusText
StatusText(status) ==
    CASE status = 200 -> "OK"
      [] status = 404 -> "Not Found"
      [] status = 500 -> "Internal Server Error"

\* whether the text token has the needle as a substring
TokenHas(token, needle) ==
    CASE needle = "Network" ->
            token \in {"Network request failed",
                       "Network error. Please check your internet connection and try again."}
      [] needle = "HTTP error" -> token \in {"HTTP error! status: "}
      [] needle = "JSON" -> token \in {"JSON Parse error: Unexpected token"}
      [] needle = "timed out" ->
            token \in {"Request timed out. Please check your internet connection and try again."}
      [] needle = "Server error" -> token \in {"Server error: "}
      [] needle = "Invalid server response" ->
            token \in {"Invalid server response. Please try again later."}
      [] OTHER -> FALSE

\* message.includes(needle)
Includes(message, needle) ==
    \E n \in 1..Len(message) : TokenHas(message[n], needle)

Error(name, message) == [name |-> name, message |-> message]

\* Rejections of fetch and response.json() are Error instances (the catch
\* block's `error instanceof Error` branch).
\* What fetch rejects with once controller.abort() has run
AbortError == Error("AbortError", <<"Aborted">>)

\* what fetch rejects with when the network fails
NetworkError == Error("TypeError", <<"Network request failed">>)

\* what response.json() rejects with on a body that is not JSON
JSONError == Error("SyntaxError", <<"JSON Parse error: Unexpected token">>)

\* what reading data.data throws when the body is the JSON value null
NullBodyError == Error("TypeError", <<"Cannot read property 'data' of null">>)

\* throw new Error(`HTTP error! status: ${response.status}`)
HttpErrorNoStatus(status) == Error("Error", <<"HTTP error! status: ", StatusText(status)>>)
HttpError(status) == Error("Error", <<"HTTP error! status: ", StatusStr(status)>>)

TimedOutMessage ==
    <<"Request timed out. Please check your internet connection and try again.">>

NetworkMessage ==
    <<"Network error. Please check your internet connection and try again.">>

InvalidResponseMessage == <<"Invalid server response. Please try again later.">>

\* the catch block: the payload given to rejectWithValue
CatchPayloadNoAbort(error) ==
    IF Includes(error.message, "Network") THEN NetworkMessage
    ELSE IF Includes(error.message, "HTTP error")
         THEN <<"Server error: ">> \o error.message \o <<". Please try again later.">>
    ELSE IF Includes(error.message, "JSON") THEN InvalidResponseMessage
    ELSE error.message
CatchPayloadNoJSON(error) ==
    IF error.name = "AbortError" THEN TimedOutMessage
    ELSE IF Includes(error.message, "Network") THEN NetworkMessage
    ELSE IF Includes(error.message, "HTTP error")
         THEN <<"Server error: ">> \o error.message \o <<". Please try again later.">>
    ELSE error.message
CatchPayload(error) ==
    IF error.name = "AbortError" THEN TimedOutMessage
    ELSE IF Includes(error.message, "Network") THEN NetworkMessage
    ELSE IF Includes(error.message, "HTTP error")
         THEN <<"Server error: ">> \o error.message \o <<". Please try again later.">>
    ELSE IF Includes(error.message, "JSON") THEN InvalidResponseMessage
    ELSE error.message

\* an id of a shift: one the server sent (text) or one the thunk made up
\* (`shift_${index}_${Date.now()}`)
UpstreamId(text) == [synth |-> FALSE, text |-> text, index |-> 0, now |-> 0]
SynthIdNoIndex(index, now) == [synth |-> TRUE, text |-> "shift_", index |-> 0, now |-> now]
SynthId(index, now) == [synth |-> TRUE, text |-> "shift_", index |-> index, now |-> now]

\* shift.id is truthy
HasId(shift) == shift.id.synth \/ Truthy(shift.id.text)

\* the shift objects a response may carry: with an id, with an empty id, without one
UpstreamShifts ==
    {[id |-> UpstreamId(t), companyName |-> "Acme"] : t \in {"s1", "", Undefined}}

Batches == UNION {[1..n -> UpstreamShifts] : n \in 0..MaxBatch}

\* the values response.json() may resolve with: a bare array, an envelope
\* {data: [...]}, an object with no data field, the value null
Bodies ==
    {[kind |-> k, items |-> b] : k \in {"array", "envelope"}, b \in Batches}
    \cup {[kind |-> "object", items |-> <<>>], [kind |-> "null", items |-> <<>>]}

\* const shiftsArray = data.data || []: an array has no data property
shiftsArray(body) == IF body.kind = "envelope" THEN body.items ELSE <<>>

\* The second definition of fetchShifts (store.ts, lines 145-184) maps over the
\* body itself: data.map(...) is a TypeError on anything but an array.
dataMapThrows(body) == body.kind # "array"

\* shiftsArray.map((shift, index) => ({...shift, id: shift.id || `shift_${index}_${Date.now()}`}))
shiftsWithIds(array, now) ==
    [n \in 1..Len(array) |->
        IF HasId(array[n]) THEN array[n]
        ELSE [array[n] EXCEPT !.id = SynthId(n - 1, now)]]

\* Date.now() values
MaxNow == 2

IdleRequest == [phase |-> "idle", coordinates |-> NoCoordinates, gets |-> 0, timer |-> "none"]

InFlight(r) == reqs[r].phase \in {"fetch", "json"}

\* the thunk's promise settles: the reducer runs and the instance is over
SettleWith(r, event, newShifts) ==
    /\ shifts' = newShifts
    /\ reqs' = [reqs EXCEPT ![r] = [@ EXCEPT !.phase = "done", !.coordinates = NoCoordinates,
                                            !.timer = IF @ = "armed" THEN "fired" ELSE @]]
    /\ lastEvent' = event

Settle(r, type, newShifts) == SettleWith(r, Event(type, r, Undefined), newShifts)

\* history of a resolved response.json(): the body it resolved with
ParsedEvent(type, r, body) ==
    [type |-> type, id |-> r, detail |-> body.kind, body |-> body]

\* dispatch(fetchShifts(coordinates)): the pending reducer runs, the payload
\* creator arms the 10 s abort timer and issues the one GET, then awaits fetch
fetchShifts(coordinates) ==
    /\ nReq < MaxCalls
    /\ nReq' = nReq + 1
    /\ reqs' = [reqs EXCEPT ![nReq + 1] =
           [phase |-> "fetch", coordinates |-> coordinates, gets |-> 1, timer |-> "armed"]]
    /\ shifts' = pending(shifts)
    /\ lastEvent' = Event("dispatch", nReq + 1, Undefined)

\* setTimeout(() => controller.abort(), 10000) fires while fetch is awaited:
\* fetch rejects with AbortError, the catch block rejects the thunk
FetchTimeout(r) ==
    /\ reqs[r].phase = "fetch"
    /\ reqs[r].timer = "armed"
    /\ Settle(r, "timeout", rejected(shifts, CatchPayload(AbortError)))
    /\ UNCHANGED <<nReq, calls, osPerm, mounted, hookVars, measure>>

\* fetch rejects because the network failed
FetchNetworkError(r) ==
    /\ reqs[r].phase = "fetch"
    /\ Settle(r, "network", rejected(shifts, CatchPayload(NetworkError)))
    /\ UNCHANGED <<nReq, calls, osPerm, mounted, hookVars, measure>>

\* fetch resolves with the response headers: clearTimeout, then either the
\* throw on !response.ok (caught at once) or the await of response.json()
FetchResponse(r) ==
    /\ reqs[r].phase = "fetch"
    /\ \E status \in Statuses :
        IF ok(status)
        THEN /\ reqs' = [reqs EXCEPT ![r] = [@ EXCEPT !.phase = "json", !.timer = "cleared"]]
             /\ lastEvent' = Event("response", r, StatusStr(status))
             /\ UNCHANGED shifts
        ELSE /\ shifts' = rejected(shifts, CatchPayload(HttpError(status)))
             /\ reqs' = [reqs EXCEPT ![r] = [@ EXCEPT !.phase = "done", !.timer = "cleared",
                                                     !.coordinates = NoCoordinates]]
             /\ lastEvent' = Event("http", r, StatusStr(status))
    /\ UNCHANGED <<nReq, calls, osPerm, mounted, hookVars, measure>>

\* response.json() resolves: the array is taken from the body and given ids;
\* reading .data of null throws into the catch block
JsonParsed(r) ==
    /\ reqs[r].phase = "json"
    /\ \E body \in Bodies, now \in 1..MaxNow :
        IF body.kind = "null"
        THEN SettleWith(r, ParsedEvent("rejected", r, body),
                        rejected(shifts, CatchPayload(NullBodyError)))
        ELSE SettleWith(r, ParsedEvent("fulfilled", r, body),
                        fulfilled(shifts, shiftsWithIds(shiftsArray(body), now)))
    /\ UNCHANGED <<nReq, calls, osPerm, mounted, hookVars, measure>>

\* response.json() rejects: the body is not JSON
JsonError(r) ==
    /\ reqs[r].phase = "json"
    /\ Settle(r, "invalid", rejected(shifts, CatchPayload(JSONError)))
    /\ UNCHANGED <<nReq, calls, osPerm, mounted, hookVars, measure>>

----------------------------------------------------------------------------
(* ShiftListScreen (src/unnamed/part_000). *)

\* loadShifts passes 3 to getLocationWithRetry
LoadShiftsRetries == 3

DoneCall == [IdleCall EXCEPT !.pc = "done"]

\* the slot of the next loadShifts invocation
FreeCall(k) == calls[k].pc = "idle" /\ \A j \in 1..(k - 1) : calls[j].pc # "idle"

\* the early return on loading with no shifts renders no RefreshControl; a
\* RefreshControl that shows refreshing = loading takes no new pull
CanRefresh == ~(shifts.loading /\ Len(shifts.data) = 0) /\ ~shifts.loading

\* loadShifts(forceRefresh) up to its first await: dispatch(clearError()), then
\* getCurrentLocation() for a refresh and getLocationWithRetry(3) otherwise
loadShifts(k, forceRefresh) ==
    /\ shifts' = clearError(shifts)
    /\ calls' = [calls EXCEPT ![k] =
           IF forceRefresh THEN getCurrentLocation("loadShifts")
           ELSE getLocationWithRetry("loadShifts", LoadShiftsRetries)]
    /\ lastEvent' = Event("loadShifts", k, IF forceRefresh THEN "refresh" ELSE "mount")

\* useEffect(() => { loadShifts(false) }, [loadShifts])
Mount ==
    /\ ~mounted
    /\ mounted' = TRUE
    /\ \E k \in Calls : FreeCall(k) /\ loadShifts(k, FALSE)
    /\ UNCHANGED <<reqs, nReq, osPerm, hookVars, measure>>

\* RefreshControl.onRefresh = () => loadShifts(true)
PullToRefresh ==
    /\ mounted
    /\ CanRefresh
    /\ \E k \in Calls : FreeCall(k) /\ loadShifts(k, TRUE)
    /\ UNCHANGED <<reqs, nReq, osPerm, mounted, hookVars, measure>>

\* if (!locationResult.success || !locationResult.coordinates)
locationFailedUnchecked(result) == FALSE
locationFailed(result) == ~result.success \/ result.coordinates = NoCoordinates

\* loadShifts after the await: the Alert and return on a failed location,
\* dispatch(fetchShifts(coordinates)) otherwise.
LoadShiftsResume(k) ==
    /\ calls[k].pc = "returned"
    /\ calls[k].caller = "loadShifts"
    /\ calls' = [calls EXCEPT ![k] = DoneCall]
    /\ LET result == calls[k].result
       IN IF locationFailed(result)
          THEN /\ lastEvent' = Event("alert", k, result.error)
               /\ UNCHANGED <<shifts, reqs, nReq>>
          ELSE fetchShifts(result.coordinates)
    /\ UNCHANGED <<osPerm, mounted, hookVars, measure>>

\* the slice's other exported actions, dispatched by any component
DispatchSetSelectedShift ==
    /\ \E payload \in {<<>>} \cup {<<shifts.data[n]>> : n \in 1..Len(shifts.data)} :
        /\ payload # shifts.selectedShift
        /\ shifts' = setSelectedShift(shifts, payload)
    /\ lastEvent' = Event("setSelectedShift", 0, Undefined)
    /\ UNCHANGED <<reqs, nReq, calls, osPerm, mounted, hookVars, measure>>

DispatchClearShifts ==
    /\ shifts' = clearShifts(shifts)
    /\ lastEvent' = Event("clearShifts", 0, Undefined)
    /\ UNCHANGED <<reqs, nReq, calls, osPerm, mounted, hookVars, measure>>

----------------------------------------------------------------------------
(* useGeolocation (src/src/navigation/AppNavigator.tsx, lines 150-397),      *)
(* LocationPermissionScreen and AppContent.                                  *)

\* useState<GeolocationState>(...); null is Undefined for error and the empty
\* sequence for coordinates
useGeolocationState ==
    [coordinates |-> NoCoordinates, loading |-> FALSE, error |-> Undefined,
     permissionStatus |-> "checking"]

\* AppContent's state
AppContent == [hasLocationPermission |-> FALSE, userCoordinates |-> NoCoordinates]

\* the deps of the auto-fetch effect
Deps(state) == <<state.permissionStatus, state.coordinates, state.loading>>

\* LocationPermissionScreen when it is not rendered, and right after its mount
NoScreen == [mounted |-> FALSE, isRequesting |-> FALSE, deps |-> Deps(useGeolocationState)]
MountedScreen == [NoScreen EXCEPT !.mounted = TRUE]

\* an async function: where it awaits, which function it is, which function
\* the await is in, and for handleRequestPermission the permissionStatus of the
\* render that made the handler
IdleTask == [pc |-> "idle", kind |-> "none", stage |-> "none", status |-> "none"]
DoneTask == [IdleTask EXCEPT !.pc = "done"]

\* the slot of the next async function
FreeTask(t) == tasks[t].pc = "idle" /\ \A j \in 1..(t - 1) : tasks[j].pc # "idle"

\* checkPermission: the setState of the switch over the check result, and of
\* the catch block
checkPermissionState(state, result) ==
    CASE result = "granted" -> [state EXCEPT !.permissionStatus = "granted"]
      [] result = "denied" -> [state EXCEPT !.permissionStatus = "denied"]
      [] result = "blocked" -> [state EXCEPT !.permissionStatus = "blocked"]
      [] result = "unavailable" ->
            [state EXCEPT !.permissionStatus = "unavailable",
                          !.error = "Location services are not available on this device"]
      [] result = Threw -> [state EXCEPT !.error = "Failed to check location permission"]
      [] OTHER -> state

\* what checkPermission and requestPermission return
checkPermission(result) == result = "granted"
requestPermission(result) == result = "granted"

\* setState(prev => ({...prev, loading: true, error: null})), the first
\* statement of requestPermission and of getCurrentLocation
loadingState(state) == [state EXCEPT !.loading = TRUE, !.error = Undefined]

\* requestPermission: the setState of the switch over the request result, and
\* of the catch block
requestPermissionState(state, result) ==
    CASE result = "granted" ->
            [state EXCEPT !.permissionStatus = "granted", !.loading = FALSE]
      [] result = "denied" ->
            [state EXCEPT !.permissionStatus = "denied", !.loading = FALSE,
                          !.error = "Location permission was denied"]
      [] result = "blocked" ->
            [state EXCEPT !.permissionStatus = "blocked", !.loading = FALSE,
                          !.error = "Location permission is blocked. Please enable it in settings."]
      [] result = "unavailable" ->
            [state EXCEPT !.permissionStatus = "unavailable", !.loading = FALSE,
                          !.error = "Location services are not available"]
      [] result = Threw ->
            [state EXCEPT !.loading = FALSE,
                          !.error = "Failed to request location permission"]
      [] OTHER -> [state EXCEPT !.loading = FALSE]

\* the Alert of requestPermission's blocked branch, with its Open Settings button
requestPermissionAlerts(result) ==
    IF result = "blocked" THEN {"Location Permission Required"} ELSE {}

\* the success callback of the hook's Geolocation.getCurrentPosition
positionState(state, pos) ==
    [state EXCEPT !.coordinates = <<pos>>, !.loading = FALSE, !.error = Undefined]

\* the switch of the hook's getCurrentPosition error callback
hookErrorMessage(code) ==
    CASE code = 1 -> "Location permission denied"
      [] code = 2 -> "Location information is unavailable"
      [] code = 3 -> "Location request timed out"
      [] code = 4 -> "Google Play services are not available"
      [] code = 5 -> "Location settings are not satisfied"
      [] OTHER -> "Failed to get location"

\* the error callback of the hook's Geolocation.getCurrentPosition
positionErrorStateDenies(state, code) ==
    [state EXCEPT !.loading = FALSE, !.error = hookErrorMessage(code),
                  !.permissionStatus = IF code = 1 THEN "denied" ELSE @]
positionErrorState(state, code) ==
    [state EXCEPT !.loading = FALSE, !.error = hookErrorMessage(code)]

\* the Alert of case 5 on Android
positionErrorAlerts(code, platform) ==
    IF code = 5 /\ platform = "android" THEN {"Enable Location"} ELSE {}

\* the view LocationPermissionScreen renders
View(state, isRequesting) ==
    IF state.loading \/ isRequesting THEN "Getting your location"
    ELSE IF state.permissionStatus \in {"denied", "checking"} THEN "Enable Location Services"
    ELSE IF state.permissionStatus = "blocked" THEN "Location Access Blocked"
    ELSE IF Truthy(state.error) THEN "Location Error"
    ELSE IF state.permissionStatus = "unavailable" THEN "Location Services Unavailable"
    ELSE "ActivityIndicator"

\* history of a step of the hook: what the OS or the device answered and the
\* alerts the step raised
HookEvent(type, t, detail, alerts) ==
    [type |-> type, id |-> t, detail |-> detail, alerts |-> alerts]

\* React drops the setState of a component that is no longer mounted
SetState(state) == geo' = IF screen.mounted THEN state ELSE geo

\* the finally block of handleRequestPermission, run when the function it
\* awaits has returned
Finally(task, scr) ==
    IF task.kind = "handleRequestPermission" THEN [scr EXCEPT !.isRequesting = FALSE] ELSE scr

\* getCurrentLocation() of the hook up to its first await: loading = true,
\* error = null, then await checkPermission()
hookGetCurrentLocation(t, kind) ==
    /\ SetState(loadingState(geo))
    /\ tasks' = [tasks EXCEPT ![t] = [pc |-> "check", kind |-> kind, stage |-> "getCurrentLocation",
                                      status |-> "none"]]

\* await check(LOCATION_PERMISSION) resolves or rejects inside checkPermission.
\* Called by the mount effect that is all; inside getCurrentLocation a granted
\* check goes on to Geolocation.getCurrentPosition (and the function returns),
\* anything else to requestPermission().
HookCheck(t) ==
    /\ tasks[t].pc = "check"
    /\ \E res \in CheckResults(osPerm) :
        /\ IF tasks[t].kind = "checkPermission"
           THEN /\ SetState(checkPermissionState(geo, res))
                /\ tasks' = [tasks EXCEPT ![t] = DoneTask]
                /\ UNCHANGED screen
           ELSE IF checkPermission(res)
           THEN /\ SetState(checkPermissionState(geo, res))
                /\ tasks' = [tasks EXCEPT ![t] = [@ EXCEPT !.pc = "device"]]
                /\ screen' = Finally(tasks[t], screen)
           ELSE /\ SetState(loadingState(checkPermissionState(geo, res)))
                /\ tasks' = [tasks EXCEPT ![t] = [@ EXCEPT !.pc = "request"]]
                /\ UNCHANGED screen
        /\ lastEvent' = HookEvent("hookCheck", t, res, {})
    /\ UNCHANGED <<osPerm, app, listVars, measure>>

\* await request(LOCATION_PERMISSION) resolves or rejects inside
\* requestPermission. In handleRequestPermission a granted request goes on to
\* getCurrentLocation(), anything else to the Alert on the permissionStatus the
\* handler was rendered with and to the finally block; inside
\* getCurrentLocation a granted request goes on to
\* Geolocation.getCurrentPosition, anything else to loading = false and return.
HookRequest(t) ==
    /\ tasks[t].pc = "request"
    /\ \E res \in RequestResults(osPerm) \cup {Threw} :
        /\ osPerm' = IF res = Threw THEN osPerm ELSE res
        /\ LET state == requestPermissionState(geo, res)
           IN IF tasks[t].stage = "handleRequestPermission"
              THEN IF requestPermission(res)
                   THEN /\ SetState(loadingState(state))
                        /\ tasks' = [tasks EXCEPT ![t] =
                               [@ EXCEPT !.pc = "check", !.stage = "getCurrentLocation"]]
                        /\ UNCHANGED screen
                        /\ lastEvent' = HookEvent("hookRequest", t, res, requestPermissionAlerts(res))
                   ELSE /\ SetState(state)
                        /\ tasks' = [tasks EXCEPT ![t] = DoneTask]
                        /\ screen' = Finally(tasks[t], screen)
                        /\ lastEvent' = HookEvent("hookRequest", t, res,
                               requestPermissionAlerts(res) \cup
                               (IF tasks[t].status = "blocked" THEN {"Permission Blocked"} ELSE {}))
              ELSE IF requestPermission(res)
                   THEN /\ SetState(state)
                        /\ tasks' = [tasks EXCEPT ![t] = [@ EXCEPT !.pc = "device"]]
                        /\ screen' = Finally(tasks[t], screen)
                        /\ lastEvent' = HookEvent("hookRequest", t, res, requestPermissionAlerts(res))
                   ELSE /\ SetState([state EXCEPT !.loading = FALSE])
                        /\ tasks' = [tasks EXCEPT ![t] = DoneTask]
                        /\ screen' = Finally(tasks[t], screen)
                        /\ lastEvent' = HookEvent("hookRequest", t, res, requestPermissionAlerts(res))
    /\ UNCHANGED <<app, listVars, measure>>

\* the success callback of the hook's Geolocation.getCurrentPosition
HookPositionSuccess(t) ==
    /\ tasks[t].pc = "device"
    /\ \E pos \in Coordinates : SetState(positionState(geo, pos))
    /\ tasks' = [tasks EXCEPT ![t] = DoneTask]
    /\ lastEvent' = HookEvent("hookPosition", t, Undefined, {})
    /\ UNCHANGED <<osPerm, screen, app, listVars, measure>>

\* the error callback of the hook's Geolocation.getCurrentPosition
HookPositionError(t) ==
    /\ tasks[t].pc = "device"
    /\ \E code \in ErrorCodes, platform \in {"ios", "android"} :
        /\ SetState(positionErrorState(geo, code))
        /\ lastEvent' = HookEvent("hookPositionError", t, hookErrorMessage(code),
                                  positionErrorAlerts(code, platform))
    /\ tasks' = [tasks EXCEPT ![t] = DoneTask]
    /\ UNCHANGED <<osPerm, screen, app, listVars, measure>>

\* if (coordinates) of the coordinates effect
hasCoordinatesAlways(state) == TRUE
hasCoordinates(state) == state.coordinates # NoCoordinates

\* useEffect(() => { if (coordinates) onPermissionGranted(coordinates) },
\* [coordinates, onPermissionGranted]): handlePermissionGranted sets
\* userCoordinates and hasLocationPermission, and AppContent no longer renders
\* LocationPermissionScreen
CoordinatesEffect ==
    /\ screen.mounted
    /\ hasCoordinates(geo)
    /\ app' = [hasLocationPermission |-> TRUE, userCoordinates |-> geo.coordinates]
    /\ screen' = [screen EXCEPT !.mounted = FALSE]
    /\ lastEvent' = HookEvent("onPermissionGranted", 0, Undefined, {})
    /\ UNCHANGED <<geo, tasks, osPerm, listVars, measure>>

\* useEffect(() => { if (permissionStatus === 'granted' && !coordinates &&
\* !loading) getCurrentLocation() }, [permissionStatus, coordinates, loading,
\* getCurrentLocation]): runs after a render in which a dep has changed
AutoFetchCondition(state) ==
    state.permissionStatus = "granted" /\ state.coordinates = NoCoordinates /\ ~state.loading

AutoFetchEffect ==
    /\ screen.mounted
    /\ screen.deps # Deps(geo)
    /\ IF AutoFetchCondition(geo)
       THEN \E t \in Tasks :
               /\ FreeTask(t)
               /\ hookGetCurrentLocation(t, "getCurrentLocation")
               /\ lastEvent' = HookEvent("autoFetch", t, "getCurrentLocation", {})
       ELSE /\ UNCHANGED <<geo, tasks>>
            /\ lastEvent' = HookEvent("autoFetch", 0, Undefined, {})
    /\ screen' = [screen EXCEPT !.deps = Deps(geo)]
    /\ UNCHANGED <<osPerm, app, listVars, measure>>

\* handleRequestPermission up to its first await, pressed on the Enable
\* Location button or on the Open Settings button of the blocked view:
\* setIsRequesting(true), then requestPermission() sets loading = true,
\* error = null and awaits request()
HandleRequestPermission ==
    /\ screen.mounted
    /\ View(geo, screen.isRequesting) \in {"Enable Location Services", "Location Access Blocked"}
    /\ \E t \in Tasks :
        /\ FreeTask(t)
        /\ tasks' = [tasks EXCEPT ![t] =
               [pc |-> "request", kind |-> "handleRequestPermission",
                stage |-> "handleRequestPermission", status |-> geo.permissionStatus]]
        /\ lastEvent' = HookEvent("handleRequestPermission", t, View(geo, screen.isRequesting), {})
    /\ SetState(loadingState(geo))
    /\ screen' = [screen EXCEPT !.isRequesting = TRUE]
    /\ UNCHANGED <<osPerm, app, listVars, measure>>

\* handleRetry, pressed on the Try Again button of the error view
HandleRetry ==
    /\ screen.mounted
    /\ View(geo, screen.isRequesting) = "Location Error"
    /\ \E t \in Tasks :
        /\ FreeTask(t)
        /\ hookGetCurrentLocation(t, "getCurrentLocation")
        /\ lastEvent' = HookEvent("handleRetry", t, Undefined, {})
    /\ UNCHANGED <<osPerm, screen, app, listVars, measure>>

\* LocationPermissionScreen has mounted: the mount effect of useGeolocation has
\* called checkPermission(), the two effects of the screen have run for the
\* first time and done nothing
InitHook ==
    /\ shifts = initialState
    /\ reqs = [r \in Requests |-> IdleRequest]
    /\ nReq = 0
    /\ calls = [k \in Calls |-> IdleCall]
    /\ osPerm \in PermissionResults
    /\ mounted = FALSE
    /\ geo = useGeolocationState
    /\ tasks = [t \in Tasks |->
           IF t = 1 THEN [pc |-> "check", kind |-> "checkPermission",
                          stage |-> "checkPermission", status |-> "none"]
           ELSE IdleTask]
    /\ screen = MountedScreen
    /\ app = AppContent
    /\ measure = NoMeasure
    /\ lastEvent = HookEvent("mount", 1, Undefined, {})

Hook ==
    \E t \in Tasks :
        \/ HookCheck(t)
        \/ HookRequest(t)
        \/ HookPositionSuccess(t)
        \/ HookPositionError(t)

NextHook ==
    \/ Hook
    \/ CoordinatesEffect
    \/ AutoFetchEffect
    \/ HandleRequestPermission
    \/ HandleRetry
    \/ SettingsChange

SpecHook == InitHook /\ [][NextHook]_vars

----------------------------------------------------------------------------
(* The application: the screen, the location service, the thunk, the slice. *)

Init ==
    /\ shifts = initialState
    /\ reqs = [r \in Requests |-> IdleRequest]
    /\ nReq = 0
    /\ calls = [k \in Calls |-> IdleCall]
    /\ osPerm \in PermissionResults
    /\ mounted = FALSE
    /\ geo = useGeolocationState
    /\ tasks = [t \in Tasks |-> IdleTask]
    /\ screen = NoScreen
    /\ app = AppContent
    /\ measure = NoMeasure
    /\ lastEvent = Event("init", 0, Undefined)

Location ==
    \E k \in Calls :
        \/ PermissionCheck(k)
        \/ PermissionRequest(k)
        \/ PositionSuccess(k)
        \/ PositionError(k)
        \/ BackoffElapsed(k)

Thunk ==
    \E r \in Requests :
        \/ FetchTimeout(r)
        \/ FetchNetworkError(r)
        \/ FetchResponse(r)
        \/ JsonParsed(r)
        \/ JsonError(r)

Next ==
    \/ Mount
    \/ PullToRefresh
    \/ \E k \in Calls : LoadShiftsResume(k)
    \/ Location
    \/ Thunk
    \/ SettingsChange
    \/ DispatchSetSelectedShift
    \/ DispatchClearShifts

Spec == Init /\ [][Next]_vars

----------------------------------------------------------------------------
(* The location service called on its own: getLocationWithRetry(maxRetries)  *)
(* for every maxRetries of 0..MaxRetries, or one getCurrentLocation().        *)

InitRetry ==
    /\ shifts = initialState
    /\ reqs = [r \in Requests |-> IdleRequest]
    /\ nReq = 0
    /\ \E c \in {getCurrentLocation("direct")}
               \cup {getLocationWithRetry("direct", n) : n \in 0..MaxRetries} :
        calls = [k \in Calls |-> IF k = 1 THEN c ELSE IdleCall]
    /\ osPerm \in PermissionResults
    /\ mounted = FALSE
    /\ geo = useGeolocationState
    /\ tasks = [t \in Tasks |-> IdleTask]
    /\ screen = NoScreen
    /\ app = AppContent
    /\ measure = NoMeasure
    /\ lastEvent = Event("init", 0, Undefined)

NextRetry ==
    \/ Location
    \/ SettingsChange

SpecRetry == InitRetry /\ [][NextRetry]_vars

\* The two location workflows side by side: a run is either a call of the
\* service (SpecRetry) or the permission screen with its hook (SpecHook).
InitWorkflow == InitRetry \/ InitHook

NextWorkflow ==
    \/ Location
    \/ NextHook

SpecWorkflow == InitWorkflow /\ [][NextWorkflow]_vars

----------------------------------------------------------------------------
(* One invocation of loadShifts(forceRefresh), for both values of            *)
(* forceRefresh, from its first await to the end of the request it            *)
(* dispatches: dispatch(clearError()) has run and the location call is made.  *)

InitLoad ==
    /\ shifts = clearError(initialState)
    /\ reqs = [r \in Requests |-> IdleRequest]
    /\ nReq = 0
    /\ \E c \in {getCurrentLocation("loadShifts"),
                  getLocationWithRetry("loadShifts", LoadShiftsRetries)} :
        calls = [k \in Calls |-> IF k = 1 THEN c ELSE IdleCall]
    /\ osPerm \in PermissionResults
    /\ mounted = TRUE
    /\ geo = useGeolocationState
    /\ tasks = [t \in Tasks |-> IdleTask]
    /\ screen = NoScreen
    /\ app = AppContent
    /\ measure = NoMeasure
    /\ lastEvent \in {Event("loadShifts", 1, IF calls[1].fn = "getCurrentLocation"
                                              THEN "refresh" ELSE "mount")}

NextLoad ==
    \/ Location
    \/ SettingsChange
    \/ \E k \in Calls : LoadShiftsResume(k)
    \/ Thunk

SpecLoad == InitLoad /\ [][NextLoad]_vars

----------------------------------------------------------------------------
(* The store on its own: any component may dispatch fetchShifts(coordinates), *)
(* setSelectedShift, clearError and clearShifts at any time.                  *)

DispatchFetchShifts ==
    /\ \E c \in Coordinates : fetchShifts(<<c>>)
    /\ UNCHANGED <<calls, osPerm, mounted, hookVars, measure>>

DispatchClearError ==
    /\ shifts.error # NoError
    /\ shifts' = clearError(shifts)
    /\ lastEvent' = Event("clearError", 0, Undefined)
    /\ UNCHANGED <<reqs, nReq, calls, osPerm, mounted, hookVars, measure>>

InitStore ==
    /\ shifts = initialState
    /\ reqs = [r \in Requests |-> IdleRequest]
    /\ nReq = 0
    /\ calls = [k \in Calls |-> IdleCall]
    /\ osPerm = "granted"
    /\ mounted = FALSE
    /\ geo = useGeolocationState
    /\ tasks = [t \in Tasks |-> IdleTask]
    /\ screen = NoScreen
    /\ app = AppContent
    /\ measure = NoMeasure
    /\ lastEvent = Event("init", 0, Undefined)

NextStore ==
    \/ DispatchFetchShifts
    \/ Thunk
    \/ DispatchSetSelectedShift
    \/ DispatchClearError
    \/ DispatchClearShifts

SpecStore == InitStore /\ [][NextStore]_vars

\* The store with what the runtime guarantees: an armed 10 s timer fires unless
\* fetch settles first. Nothing obliges the server to answer, to finish a body
\* or to fail, and nothing obliges a component to dispatch.
SpecStoreFair == SpecStore /\ \A r \in Requests : WF_vars(FetchTimeout(r))

----------------------------------------------------------------------------
(* calculateDistance applied to a pair of valid points, in both orders. *)

InitDistance ==
    /\ shifts = initialState
    /\ reqs = [r \in Requests |-> IdleRequest]
    /\ nReq = 0
    /\ calls = [k \in Calls |-> IdleCall]
    /\ osPerm = "granted"
    /\ mounted = FALSE
    /\ geo = useGeolocationState
    /\ tasks = [t \in Tasks |-> IdleTask]
    /\ screen = NoScreen
    /\ app = AppContent
    /\ \E coords1 \in GridCoordinates, coords2 \in GridCoordinates :
        measure = [NoMeasure EXCEPT !.coords1 = coords1, !.coords2 = coords2]
    /\ lastEvent = Event("init", 0, Undefined)

\* calculateDistance(coords1, coords2)
MeasureForward ==
    /\ measure.forward = NoDistance
    /\ measure' = [measure EXCEPT
           !.forward = <<calculateDistance(measure.coords1, measure.coords2)>>]
    /\ lastEvent' = Event("calculateDistance", 0, "forward")
    /\ UNCHANGED <<osPerm, hookVars, listVars>>

\* calculateDistance(coords2, coords1)
MeasureBackward ==
    /\ measure.backward = NoDistance
    /\ measure' = [measure EXCEPT
           !.backward = <<calculateDistance(measure.coords2, measure.coords1)>>]
    /\ lastEvent' = Event("calculateDistance", 0, "backward")
    /\ UNCHANGED <<osPerm, hookVars, listVars>>

NextDistance ==
    \/ MeasureForward
    \/ MeasureBackward

SpecDistance == InitDistance /\ [][NextDistance]_vars

----------------------------------------------------------------------------
(* Properties. *)

\* C1: a fetchShifts completion that arrives after a newer request has already
\* completed is discarded: it changes neither data nor error.
C1_StaleCompletionDiscarded ==
    [][\A a \in Requests :
          (/\ InFlight(a)
           /\ reqs'[a].phase = "done"
           /\ \E b \in Requests : b > a /\ reqs[b].phase = "done")
          => (shifts'.data = shifts.data /\ shifts'.error = shifts.error)]_vars

\* C2 as stated: data is non-empty only when loading = false and error = null.
C2_DataOnlyOnSuccess ==
    Len(shifts.data) > 0 => (~shifts.loading /\ shifts.error = NoError)

\* C2 as amended: data is non-empty only when error = null (a refresh keeps the
\* previous records while it is loading).
C2_DataImpliesNoError == Len(shifts.data) > 0 => shifts.error = NoError

\* a refresh has been dispatched over the records of an earlier success
C2_Witness ==
    Len(shifts.data) > 0 /\ shifts.loading /\ lastEvent.type = "dispatch"

\* C3: error is non-null only when loading = false and data is empty.
C3_ErrorOnlyOnError ==
    shifts.error # NoError => (~shifts.loading /\ Len(shifts.data) = 0)

\* an error was written while another request is still in flight
C3_Witness == shifts.error # NoError /\ \E r \in Requests : InFlight(r)

\* C4: within one location acquisition call the OS answers at most one
\* permission request with "blocked": a blocked permission is not requested again.
C4_BlockedRequestedOnce == \A k \in Calls : calls[k].blockedRequests <= 1

\* C5: getLocationWithRetry(maxRetries) makes at most maxRetries attempts, and a
\* failure is returned only after maxRetries attempts, with a non-empty error
\* that is the error of the last attempt.
C5_RetryBounded ==
    \A k \in Calls :
        LET c == calls[k]
        IN c.fn = "getLocationWithRetry" =>
            /\ c.attempts <= c.maxRetries
            /\ (c.pc = "returned" /\ ~c.result.success) =>
                /\ c.attempts = c.maxRetries
                /\ Truthy(c.result.error)
                /\ (lastEvent.type = "positionError" => c.result.error = lastEvent.detail)
                /\ (lastEvent.type = "request" =>
                        c.result.error = "Location permission denied")

\* three attempts have failed and the failure has been returned
C5_Witness ==
    \E k \in Calls :
        /\ calls[k].fn = "getLocationWithRetry"
        /\ calls[k].pc = "returned"
        /\ ~calls[k].result.success
        /\ calls[k].attempts = 3
        /\ lastEvent.type = "positionError"

\* C6: the backoff delays are 1000 ms first and double each time, so they are
\* strictly increasing, and there is at most one per attempt made.
C6_BackoffDoubles ==
    \A k \in Calls :
        LET d == calls[k].delays
        IN /\ Len(d) <= calls[k].attempts
           /\ \A n \in 1..Len(d) :
                IF n = 1 THEN d[n] = 1000
                ELSE d[n] = 2 * d[n - 1] /\ d[n] > d[n - 1]

\* three backoff timers have been set
C6_Witness == \E k \in Calls : calls[k].delays = <<1000, 2000, 4000>>

\* C7: at most one fetchShifts request is in flight.
C7_OneFetchInFlight == Cardinality({r \in Requests : InFlight(r)}) <= 1

\* C8: at most one Geolocation.getCurrentPosition call awaits its callback.
C8_OnePositionRequest == Cardinality({k \in Calls : calls[k].pc = "device"}) <= 1

\* C9: when the 10 s timer fires while fetch is awaited, the request is aborted
\* and the state is loading = false, data empty, error a timeout reason.
C9_TimeoutIsError ==
    lastEvent.type = "timeout" =>
        /\ reqs[lastEvent.id].timer = "fired"
        /\ reqs[lastEvent.id].phase = "done"
        /\ ~shifts.loading
        /\ Len(shifts.data) = 0
        /\ Includes(shifts.error, "timed out")

\* a request timed out after an earlier one had completed
C9_Witness == lastEvent.type = "timeout" /\ lastEvent.id > 1

\* C10: a non-2xx response leaves loading = false and an error that holds the
\* status code, and every fetchShifts call has issued exactly one GET.
C10_HttpErrorHasStatus ==
    /\ \A r \in Requests : reqs[r].phase # "idle" => reqs[r].gets = 1
    /\ lastEvent.type = "http" =>
        /\ reqs[lastEvent.id].phase = "done"
        /\ ~shifts.loading
        /\ shifts.error # NoError
        /\ \E n \in 1..Len(shifts.error) : shifts.error[n] = lastEvent.detail

\* a request was answered with status 500
C10_Witness == lastEvent.type = "http" /\ lastEvent.detail = "500"

\* C11: after a successful response whose body is a bare array of n shift
\* objects, or an envelope whose data field is that array, the state is success
\* with n records.
C11_BothShapesExtracted ==
    (lastEvent.type = "fulfilled" /\ lastEvent.detail \in {"array", "envelope"}) =>
        /\ ~shifts.loading
        /\ shifts.error = NoError
        /\ Len(shifts.data) = Len(lastEvent.body.items)

C14_FetchOnlyAfterLocation ==
    [][/\ \A r \in Requests :
            (reqs[r].phase = "idle" /\ reqs'[r].phase # "idle") =>
                \E k \in Calls :
                    /\ calls[k].pc = "returned" /\ calls'[k].pc = "done"
                    /\ calls[k].caller = "loadShifts"
                    /\ calls[k].result.success
                    /\ calls[k].result.coordinates # NoCoordinates
                    /\ reqs'[r].coordinates = calls[k].result.coordinates
       /\ \A k \in Calls :
            (/\ calls[k].pc = "returned" /\ calls'[k].pc = "done"
             /\ (~calls[k].result.success \/ calls[k].result.coordinates = NoCoordinates))
                => (nReq' = nReq /\ reqs' = reqs /\ lastEvent'.type = "alert")]_vars

\* a refresh has dispatched its request with the coordinates the device gave
C14_Witness ==
    /\ lastEvent.type = "dispatch"
    /\ reqs[lastEvent.id].phase = "fetch"
    /\ reqs[lastEvent.id].coordinates = <<[latitude |-> 55, longitude |-> 37]>>
    /\ calls[1].pc = "done"

\* C15: a location acquisition that has returned gave a typed outcome: success
\* with coordinates and no error, or failure with a non-empty error and no
\* coordinates, whatever check, request and the device answered; a rejected
\* check or request is an outcome too.
C15_TypedOutcome ==
    \A k \in Calls :
        /\ calls[k].pc \in {"idle", "check", "request", "device", "backoff", "returned", "done"}
        /\ calls[k].pc = "returned" =>
            LET r == calls[k].result
            IN \/ r.success /\ r.coordinates \in {<<c>> : c \in Coordinates}
                  /\ r.error = Undefined
               \/ ~r.success /\ r.coordinates = NoCoordinates /\ Truthy(r.error)

\* the device reported an error code outside the switch and the failure was returned
C15_Witness ==
    \E k \in Calls :
        /\ calls[k].pc = "returned"
        /\ ~calls[k].result.success
        /\ lastEvent = Event("positionError", k, "Failed to get location")

\* C16: in the service's and in the hook's getCurrentLocation the device
\* position API is invoked only by the step in which the check or the request
\* reported "granted"; the request is made only after a check that was not
\* granted; a request that was not granted is never followed by the position
\* API.
C16_PositionAfterGrant ==
    [][/\ \A k \in Calls :
            /\ (calls[k].pc # "device" /\ calls'[k].pc = "device") =>
                  /\ calls[k].pc \in {"check", "request"}
                  /\ lastEvent' = Event(calls[k].pc, k, "granted")
            /\ (calls[k].pc # "request" /\ calls'[k].pc = "request") =>
                  /\ calls[k].pc = "check"
                  /\ lastEvent'.type = "check" /\ lastEvent'.id = k
                  /\ lastEvent'.detail # "granted"
            /\ (calls[k].pc = "request" /\ calls'[k] # calls[k]
                    /\ lastEvent'.detail # "granted") => calls'[k].pc # "device"
       /\ \A t \in Tasks :
            /\ (tasks[t].pc # "device" /\ tasks'[t].pc = "device") =>
                  /\ tasks[t].stage = "getCurrentLocation"
                  /\ tasks[t].pc \in {"check", "request"}
                  /\ lastEvent' = HookEvent(IF tasks[t].pc = "check" THEN "hookCheck"
                                            ELSE "hookRequest", t, "granted", {})
            /\ (tasks[t].stage = "getCurrentLocation" /\ tasks[t].pc # "request"
                    /\ tasks'[t].pc = "request") =>
                  /\ tasks[t].pc = "check"
                  /\ lastEvent'.type = "hookCheck" /\ lastEvent'.id = t
                  /\ lastEvent'.detail # "granted"
            /\ (tasks[t].pc = "request" /\ tasks'[t] # tasks[t]
                    /\ lastEvent'.detail # "granted") => tasks'[t].pc # "device"]_vars

\* the service has called the position API after a request that was granted
C16_Witness ==
    \E k \in Calls :
        /\ calls[k].pc = "device"
        /\ calls[k].permRequests = 1
        /\ lastEvent = Event("request", k, "granted")

\* C17: permissionStatus is 'checking' at first; a step changes it only when it
\* is the answer of check() or request(), and then to the value the OS
\* answered; every answer of the OS that is a permission result becomes the
\* permissionStatus while the screen is mounted.
C17_StatusFollowsOS ==
    /\ geo.permissionStatus = "checking"
    /\ [][/\ geo'.permissionStatus # geo.permissionStatus =>
                /\ lastEvent'.type \in {"hookCheck", "hookRequest"}
                /\ lastEvent'.detail \in PermissionResults
                /\ geo'.permissionStatus = lastEvent'.detail
           /\ \A t \in Tasks :
                (/\ tasks[t].pc \in {"check", "request"}
                 /\ tasks'[t] # tasks[t]
                 /\ screen.mounted
                 /\ lastEvent'.detail \in PermissionResults)
                    => geo'.permissionStatus = lastEvent'.detail]_vars

\* the device has refused the position with PERMISSION_DENIED while the
\* permissionStatus is granted
C17_Witness ==
    /\ lastEvent.type = "hookPositionError"
    /\ lastEvent.detail = "Location permission denied"
    /\ geo.permissionStatus = "granted"
    /\ ~geo.loading

\* C18 for the service: the failure returned after a request the OS answered
\* "blocked" has a reason different from the one returned after "denied".
C18_BlockedReasonDiffers ==
    \A k \in Calls :
        (/\ calls[k].pc = "returned"
         /\ lastEvent = Event("request", k, "blocked"))
            => calls[k].result.error # requestFailure("denied").error

\* C19: the position given to a forced refresh (loadShifts(true)) comes from a
\* new query of the device, never from the cache; a load that is not forced
\* goes through getLocationWithRetry.
C19_ForcedRefreshIsFresh ==
    /\ (lastEvent.type = "position" /\ calls[lastEvent.id].caller = "loadShifts"
            /\ calls[lastEvent.id].fn = "getCurrentLocation")
          => lastEvent.detail = "fresh"
    /\ lastEvent.type = "loadShifts" =>
          calls[lastEvent.id].fn = (IF lastEvent.detail = "refresh" THEN "getCurrentLocation"
                                    ELSE "getLocationWithRetry")

C21_OnlyFetchMutates ==
    [][(/\ \E k \in Calls :
              /\ calls'[k] # calls[k]
              /\ "loadShifts" \in {calls[k].caller, calls'[k].caller}
        /\ reqs' = reqs)
          => /\ shifts'.data = shifts.data
             /\ shifts'.loading = shifts.loading
             /\ shifts'.error = shifts.error]_vars

\* C22: calculateDistance is symmetric: for two valid points, measuring from
\* the first to the second and from the second to the first returns the same
\* formatted string, the same unit and the same distance.
C22_DistanceSymmetric ==
    (measure.forward # NoDistance /\ measure.backward # NoDistance)
        => /\ measure.forward[1].formatted = measure.backward[1].formatted
           /\ measure.forward[1].unit = measure.backward[1].unit
           /\ measure.forward[1].distance = measure.backward[1].distance

\* C23: the distance from a valid point to itself is 0, reported in metres.
C23_DistanceToSelfIsZero ==
    (measure.forward # NoDistance /\ measure.coords1 = measure.coords2)
        => /\ measure.forward[1].distance = 0
           /\ measure.forward[1].unit = "m"
           /\ measure.forward[1].formatted = "0 m"

C23_Witness ==
    /\ measure.forward # NoDistance
    /\ measure.coords1 = measure.coords2
    /\ measure.coords1.latitude > 0
    /\ measure.coords1.longitude < 0
    /\ measure.forward[1].unit = "m"

\* C24: while LocationPermissionScreen shows the Location Error view with the
\* permission granted and the message of a failed position request (no
\* coordinates, loading false), a new getCurrentLocation starts only by the Try
\* Again button.
C24_ErrorViewStable ==
    [][(/\ screen.mounted
        /\ geo.permissionStatus = "granted"
        /\ View(geo, screen.isRequesting) = "Location Error"
        /\ geo.error \in {hookErrorMessage(code) : code \in ErrorCodes}
        /\ \E t \in Tasks : /\ tasks[t].pc = "idle"
                            /\ tasks'[t].stage = "getCurrentLocation")
          => lastEvent'.type = "handleRetry"]_vars

\* C25: the loading flags track the work in flight: shifts.loading is true
\* whenever a fetchShifts request is in flight, and the loading of
\* useGeolocation is true whenever a Geolocation.getCurrentPosition call of the
\* hook awaits its callback.
C25_LoadingTracksWork ==
    /\ (\E r \in Requests : InFlight(r)) => shifts.loading
    /\ (screen.mounted /\ \E t \in Tasks : tasks[t].pc = "device") => geo.loading

\* C26: getLocationWithRetry returns the result of the first successful attempt
\* in the step that produces it, with no further attempt and no further delay;
\* every delay is followed by another attempt, so a call that has returned has
\* waited one delay fewer than it made attempts, and never more than
\* maxRetries - 1.
C26_ReturnsWithoutDelay ==
    /\ [](\A k \in Calls :
            calls[k].fn = "getLocationWithRetry" =>
                /\ calls[k].attempts <= calls[k].maxRetries
                /\ calls[k].pc = "backoff" => calls[k].attempts < calls[k].maxRetries
                /\ calls[k].pc = "returned" /\ calls[k].attempts > 0 =>
                       Len(calls[k].delays) = calls[k].attempts - 1
                /\ calls[k].pc = "returned" /\ calls[k].attempts = 0 =>
                       Len(calls[k].delays) = 0)
    /\ [][\A k \in Calls :
            /\ calls[k].fn = "getLocationWithRetry" /\ calls'[k] # calls[k]
                  /\ lastEvent'.type = "position" =>
                   /\ calls'[k].pc = "returned"
                   /\ calls'[k].result.success
                   /\ calls'[k].attempts = calls[k].attempts
                   /\ calls'[k].delays = calls[k].delays
            /\ calls[k].pc = "returned" => calls'[k] = calls[k]]_vars

\* the second attempt succeeded after one delay, and the call has returned
C26_Witness ==
    \E k \in Calls :
        /\ calls[k].fn = "getLocationWithRetry"
        /\ calls[k].pc = "returned"
        /\ calls[k].result.success
        /\ calls[k].attempts = 2
        /\ calls[k].delays = <<1000>>
        /\ calls[k].maxRetries > 2

\* C27: each action of the shifts slice changes only its own fields: pending
\* leaves data and selectedShift; fulfilled and rejected leave selectedShift;
\* setSelectedShift changes only selectedShift; clearError changes only error;
\* clearShifts resets data, selectedShift and error and leaves loading.
C27_ActionsKeepOtherFields ==
    [][/\ lastEvent'.type = "dispatch" =>
              /\ shifts'.data = shifts.data
              /\ shifts'.selectedShift = shifts.selectedShift
       /\ lastEvent'.type \in {"timeout", "network", "http", "fulfilled", "rejected", "invalid"} =>
              shifts'.selectedShift = shifts.selectedShift
       /\ lastEvent'.type = "setSelectedShift" =>
              /\ shifts'.data = shifts.data
              /\ shifts'.loading = shifts.loading
              /\ shifts'.error = shifts.error
       /\ lastEvent'.type = "clearError" =>
              shifts' = [shifts EXCEPT !.error = NoError]
       /\ lastEvent'.type = "clearShifts" =>
              /\ shifts'.data = <<>>
              /\ shifts'.selectedShift = <<>>
              /\ shifts'.error = NoError
              /\ shifts'.loading = shifts.loading]_vars

\* clearShifts has run while a request is in flight
C27_Witness ==
    /\ lastEvent.type = "clearShifts"
    /\ shifts.loading
    /\ \E r \in Requests : InFlight(r)

\* C28: normalisation preserves the batch: after a successful response that
\* carries a record array, the stored data has the length and the order of that
\* array, every record keeps its upstream fields, and a record that arrived with
\* a non-empty id keeps it.
C28_BatchPreserved ==
    (lastEvent.type = "fulfilled" /\ lastEvent.detail \in {"array", "envelope"}) =>
        LET array == lastEvent.body.items
            data == shifts.data
        IN  /\ Len(data) = Len(array)
            /\ \A n \in 1..Len(array) :
                  /\ n <= Len(data)
                  /\ data[n].companyName = array[n].companyName
                  /\ HasId(array[n]) => data[n].id = array[n].id

\* C29: onPermissionGranted is called only with coordinates, so in AppContent
\* hasLocationPermission = true implies userCoordinates is not null, and
\* hasLocationPermission, once true, stays true.
C29_LeavesWithCoordinates ==
    /\ [](/\ lastEvent.type = "onPermissionGranted" => app.userCoordinates # NoCoordinates
          /\ app.hasLocationPermission => app.userCoordinates # NoCoordinates)
    /\ [][app.hasLocationPermission =>
              /\ app'.hasLocationPermission
              /\ app'.userCoordinates = app.userCoordinates]_vars

\* the screen has handed its coordinates to AppContent and is gone, and a
\* later step has run
C29_Witness ==
    /\ app.hasLocationPermission
    /\ app.userCoordinates # NoCoordinates
    /\ ~screen.mounted
    /\ lastEvent.type # "onPermissionGranted"

\* C30: when permissionStatus is 'unavailable' and nothing is loading or being
\* requested, LocationPermissionScreen renders the Location Services
\* Unavailable view.
C30_UnavailableViewShown ==
    (/\ screen.mounted
     /\ geo.permissionStatus = "unavailable"
     /\ ~geo.loading
     /\ ~screen.isRequesting)
        => View(geo, screen.isRequesting) = "Location Services Unavailable"

====
